---- MODULE Spec2Model ----
(***************************************************************************)
(* Hybrid-automaton stepping core of the generated NEST node               *)
(* nineml::StdpSongAbbott (StdpSongAbbott.h / StdpSongAbbott.cpp).         *)
(*                                                                         *)
(* Numbers.  The C++ doubles are modelled in fixed point: the              *)
(* dimensionless quantities (deltaw, M, P, wsyn, aLTP, aLTD, wmax, wmin)   *)
(* are integers counting eighths, times (t, tlast_pre, tlast_post, tauLTP, *)
(* tauLTD, origin) are integers counting milliseconds, and exp() is a      *)
(* table in eighths.  NaN is a distinguished value with the IEEE rules of  *)
(* propagation and comparison (every comparison with NaN is false).        *)
(***************************************************************************)
EXTENDS Integers, Sequences, FiniteSets, TLC

(***************************************************************************)
(* Bounds of the explored environment.                                     *)
(***************************************************************************)
\* update calls per run
MaxSlices == 2
\* handle calls per run
MaxEvents == 3
\* steps per update call: the kernel's min_delay
MinDelay == 2

(***************************************************************************)
(* Constants of the program and of the kernel it runs in.                  *)
(***************************************************************************)
MAX_SIMULTANEOUS_TRANSITIONS == 1000
SOLE_REGIME == 0
NUM_REGIMES_ == 1
MIN_EVENT_PORT_ == 1
presynaptic_spike_EVENT_PORT == 1
postsynaptic_spike_EVENT_PORT == 2
SUP_EVENT_PORT_ == 3
MIN_ANALOG_PORT_ == 1
SUP_ANALOG_PORT_ == 0
STATE_VEC_SIZE_ == 6
\* nest::Time::get_resolution().get_ms()
dt == 1
\* -std::numeric_limits<double>::min(): an instant just before t = 0
T_BEFORE_ZERO == -1

(***************************************************************************)
(* double arithmetic                                                       *)
(***************************************************************************)
\* exp(0), exp(-1), exp(-2) in eighths; exp(-k) rounds to 0 from k = 3 on
ExpTable == <<8, 3, 1>>
FOne == ExpTable[1]
NaN == -(2^30)
IsNaN(x) == x = NaN
\* a value the model has no representation for (+inf, exp of a positive
\* argument): evaluating it is an error, never an invented number
Unrepresented == CHOOSE x \in {} : TRUE

FAdd(a, b) == IF IsNaN(a) \/ IsNaN(b) THEN NaN ELSE a + b
FMul(a, b) == IF IsNaN(a) \/ IsNaN(b) THEN NaN ELSE (a * b) \div FOne
FLess(a, b) == ~IsNaN(a) /\ ~IsNaN(b) /\ a < b
FGreater(a, b) == ~IsNaN(a) /\ ~IsNaN(b) /\ a > b

\* exp(num / den) for a time difference num and a time constant den (both in
\* ms); the quotient is rounded to the nearest integer (half away from 0)
FExpDiv(num, den) ==
    IF IsNaN(num) \/ IsNaN(den) THEN NaN
    ELSE IF den = 0
         THEN (IF num = 0 THEN NaN          \* exp(0/0)
               ELSE IF num < 0 THEN 0       \* exp(-inf)
               ELSE Unrepresented)          \* exp(+inf)
    ELSE IF num = 0 THEN FOne
    ELSE IF num < 0 /\ den > 0
         THEN LET k == (2 * (0 - num) + den) \div (2 * den)
              IN  IF k + 1 <= Len(ExpTable) THEN ExpTable[k + 1] ELSE 0
    ELSE Unrepresented

(***************************************************************************)
(* Regimes and transitions (the object graph built by construct_regimes)   *)
(***************************************************************************)
\* a Regime_* : the owning cell, the regime's index and its name
NullRegime == [cell |-> "NULL", index |-> 0, name |-> "NULL"]
soleRegime_(cell) == [cell |-> cell, index |-> SOLE_REGIME, name |-> "sole"]

\* the instances: the model prototype and a node cloned from it
Cells == {"prototype", "node"}

on_conditions == <<"soleOnCondition0", "soleOnCondition1">>
on_events == <<"soleOnpresynaptic_spikeEvent", "soleOnpostsynaptic_spikeEvent">>
OnConditions == {on_conditions[i] : i \in 1..Len(on_conditions)}
OnEvents == {on_events[i] : i \in 1..Len(on_events)}
Transitions == OnConditions \cup OnEvents
NoTransition == "NULL"

\* the placeholder index every transition's constructor passes to Transition_
target_regime_index == [tr \in Transitions |-> SOLE_REGIME]

\* regimes.push_back(new soleRegime_(this))
ConstructedRegimes(cell) == <<soleRegime_(cell)>>
\* Variant: targets resolved against the regimes of the prototype.
ResolvedInOriginal(rs) ==
    [tr \in Transitions |-> ConstructedRegimes("prototype")[target_regime_index[tr] + 1]]
\* Transition_::set_target_regime for every transition of every regime
ResolvedTargets(rs) == [tr \in Transitions |-> rs[target_regime_index[tr] + 1]]
\* OnCondition_::OnCondition_ : active(false)
ConstructedLatches == [c \in OnConditions |-> FALSE]

(***************************************************************************)
(* Parameters_ and State_                                                  *)
(***************************************************************************)
ParamKeys == <<"tauLTP", "aLTP", "tauLTD", "aLTD", "wmax", "wmin">>
StateKeys == <<"tlast_post", "tlast_pre", "deltaw", "M", "P", "wsyn">>

\* Parameters_::Parameters_()
DefaultParameters ==
    [tauLTP |-> 0, aLTP |-> 0, tauLTD |-> 0, aLTD |-> 0, wmax |-> 0, wmin |-> 0]

\* State_::State_(const Parameters_&, Regime_*)
NewState(p, regime) ==
    [tlast_post |-> 0, tlast_pre |-> 0, deltaw |-> 0, M |-> 0, P |-> 0,
     wsyn |-> 0, current_regime |-> regime, t |-> T_BEFORE_ZERO]

\* State_::State_(const State_&) and State_::operator=
CopyState(s) ==
    [tlast_post |-> s.tlast_post, tlast_pre |-> s.tlast_pre,
     deltaw |-> s.deltaw, M |-> s.M, P |-> s.P, wsyn |-> s.wsyn,
     current_regime |-> s.current_regime, t |-> s.t]

NoError == [name |-> "none", model |-> "", num_transitions |-> 0, t |-> 0]
Error(name) == [name |-> name, model |-> "", num_transitions |-> 0, t |-> 0]
\* ExceededMaximumSimultaneousTransitions(model, num_transitions, t)
ExceededMaximumSimultaneousTransitions(model, n, t) ==
    [name |-> "ExceededMaximumSimultaneousTransitions", model |-> model,
     num_transitions |-> n, t |-> t]

(***************************************************************************)
(* The instance                                                            *)
(***************************************************************************)
VARIABLES
    this,                \* identity of the modelled instance
    regimes,             \* std::vector<Regime_*> regimes
    target_regime,       \* Transition_::target_regime of each transition
    active,              \* OnCondition_::active of each on-condition
    P_,                  \* Parameters_
    S_,                  \* State_ (y_[6], current_regime, t)
    event_port,          \* B_.<port>_event_port: per lag, a list of weights
    events_lag,          \* the lag whose lists B_.<port>_events point to
    buffers_initialized, \* init_buffers_() has run
    pc,                  \* position of the control flow (update's loop)
    slice,               \* number of update calls completed
    origin,              \* origin.get_ms() of the running update call
    lag,                 \* update's loop variable
    to,                  \* update's end lag
    end_of_step_t,       \* update's local of the same name
    simultaneous_transition_count,
    transition,          \* update's local Transition_* transition
    weight_,             \* the weight last taken from a list by a body
    error,               \* the exception the last call raised, if any
    n_handled,           \* handle(SpikeEvent) calls so far
    step_obs,            \* history of the running (or last) step
    edge_obs,            \* history of each on-condition's firings
    workload,            \* the kind of traffic the environment sends
    connections,         \* the connections made to this node: event type, rport
    logger_              \* B_.logger_: the records record_data was called for

vars == <<this, regimes, target_regime, active, P_, S_, event_port, events_lag,
          buffers_initialized, pc, slice, origin, lag, to, end_of_step_t,
          simultaneous_transition_count, transition, weight_, error,
          n_handled, step_obs, edge_obs, workload,
                   connections, logger_>>

Ports == {"presynaptic_spike", "postsynaptic_spike"}
Lags == 0..(MinDelay - 1)
\* ListRingBuffer after clear(): an empty list for every lag
ClearedPort == [l \in Lags |-> <<>>]

\* the parameter sets given to model prototypes (SetDefaults)
TypicalParameters ==
    [tauLTP |-> 1, aLTP |-> 4, tauLTD |-> 2, aLTD |-> 2, wmax |-> 16, wmin |-> 2]
PrototypeParameters == {DefaultParameters, TypicalParameters}

\* copy constructor: the regime of this instance whose name is that of the
\* regime the copied state points to (the last one, should several match)
RECURSIVE MatchRegimeByName(_, _, _)
MatchRegimeByName(rs, cur, i) ==
    IF i > Len(rs) THEN cur
    ELSE IF rs[i].name = cur.name THEN MatchRegimeByName(rs, rs[i], i + 1)
    ELSE MatchRegimeByName(rs, cur, i + 1)

\* StdpSongAbbott::StdpSongAbbott(): S_(P_, NULL); construct_regimes();
\* S_.current_regime = regimes[0]
DefaultConstructedState(rs) ==
    [NewState(DefaultParameters, NullRegime) EXCEPT !.current_regime = rs[1]]

\* Variant: a copy constructor that keeps the copied regime pointer.
CopyKeepsPointer(nS, rs) == CopyState(nS)

\* StdpSongAbbott::StdpSongAbbott(const StdpSongAbbott& n): S_(n.S_);
\* construct_regimes(); current_regime re-pointed into this->regimes
CopyConstructedState(nS, rs) ==
    [CopyState(nS) EXCEPT !.current_regime = MatchRegimeByName(rs, nS.current_regime, 1)]

Workloads == {"sparse", "burst"}

\* History variables.  step_obs records, for the step that is running or ran
\* last: wsyn, the latches, the regime and the two event lists as they were
\* when the step began; how often each transition's body ran; whether a
\* presynaptic body took wsyn from not above wmax to above it; whether each
\* guard held in every state of the step; whether the step completed; the
\* value S_.t was given when the step began; the calls of init_solver that
\* followed a firing; S_ as the step found it.
NoStep ==
    [start_t |-> T_BEFORE_ZERO, start_wsyn |-> 0, start_active |-> ConstructedLatches,
     start_regime |-> NullRegime, start_lists |-> [q \in Ports |-> <<>>],
     fired |-> [tr \in Transitions |-> 0], pre_raised |-> FALSE,
     steady |-> [c \in OnConditions |-> FALSE], done |-> FALSE,
     init_solver |-> 0, start_S |-> NewState(DefaultParameters, NullRegime)]
\* edge_obs records, per on-condition: whether it has fired; whether, since
\* it fired last, a set_trigger call evaluated its guard and found it false;
\* the number of consecutive completed steps throughout which its guard
\* held, and its firings within them; and whether init_buffers_ found
\* wmin <= wsyn <= wmax.
NoEdges ==
    [has_fired |-> [c \in OnConditions |-> FALSE],
     seen_false |-> [c \in OnConditions |-> FALSE],
     held |-> [c \in OnConditions |-> 0],
     held_fires |-> [c \in OnConditions |-> 0],
     bounded |-> FALSE]

InitCommon ==
    /\ regimes = ConstructedRegimes(this)
    /\ target_regime = ResolvedTargets(regimes)
    /\ active = ConstructedLatches
    /\ event_port = [p \in Ports |-> ClearedPort]
    /\ events_lag = -1
    /\ buffers_initialized = FALSE
    /\ pc = "idle"
    /\ slice = 0
    /\ origin = 0
    /\ lag = 0
    /\ to = 0
    /\ end_of_step_t = 0
    /\ simultaneous_transition_count = 0
    /\ transition = NoTransition
    /\ weight_ = 0
    /\ error = NoError
    /\ n_handled = 0
    /\ step_obs = NoStep
    /\ edge_obs = NoEdges
    /\ workload \in Workloads
    /\ connections = {}
    /\ logger_ = <<>>

InitDefault ==
    /\ this = "prototype"
    /\ P_ = DefaultParameters
    /\ InitCommon
    /\ S_ = DefaultConstructedState(regimes)

InitCopy ==
    /\ this = "node"
    /\ P_ \in PrototypeParameters
    /\ InitCommon
    /\ S_ = CopyConstructedState(
                DefaultConstructedState(ConstructedRegimes("prototype")), regimes)

Init == InitDefault \/ InitCopy

(***************************************************************************)
(* Property dictionaries (DictionaryDatum) and updateValue                 *)
(***************************************************************************)
Absent == [kind |-> "absent", v |-> 0]
Double(x) == [kind |-> "double", v |-> x]
Long(x) == [kind |-> "long", v |-> x]
String == [kind |-> "string", v |-> 0]

\* updateValue<double_t>(d, key, rec.key) for the keys in order: an absent key
\* leaves the field alone, a double is stored, a token of another type
\* raises TypeMismatch with the earlier fields already stored
RECURSIVE UpdateValues(_, _, _, _)
UpdateValues(rec, d, keys, i) ==
    IF i > Len(keys) THEN [ok |-> TRUE, val |-> rec]
    ELSE LET k == keys[i]
         IN  IF d[k].kind = "absent" THEN UpdateValues(rec, d, keys, i + 1)
             ELSE IF d[k].kind = "double"
                  THEN UpdateValues([rec EXCEPT ![k] = d[k].v], d, keys, i + 1)
             ELSE [ok |-> FALSE, val |-> rec]

\* Parameters_::set
ParametersSet(p, d) == UpdateValues(p, d, ParamKeys, 1)

\* the loop of State_::set and of calibrate: is the regime one of the regimes
\* of the cell that owns the state's current regime
FoundRegime(rs, s, regime) ==
    LET owned == IF s.current_regime.cell = this THEN rs
                 ELSE ConstructedRegimes(s.current_regime.cell)
    IN  \E i \in 1..Len(owned) : owned[i] = regime

\* State_::set(d, p, regime); found is the asserted found_regime
StateSet(s, d, regime) ==
    LET r == UpdateValues(s, d, StateKeys, 1)
    IN  [ok |-> r.ok,
         found |-> FoundRegime(regimes, s, regime),
         val |-> [r.val EXCEPT !.current_regime = regime]]

\* State_::set as a call on the state s: what it raises and what it leaves in
\* s.  The values are stored before the regime is looked up; the lookup is
\* an assert, which a build that defines NDEBUG compiles out.
StateSetCall(s, d, regime, ndebug) ==
    LET r == StateSet(s, d, regime)
    IN  IF ~r.ok
        THEN [error |-> Error("TypeMismatch"),
              val |-> [r.val EXCEPT !.current_regime = s.current_regime]]
        ELSE IF ~r.found /\ ~ndebug
        THEN [error |-> Error("AssertionFailed"),
              val |-> [r.val EXCEPT !.current_regime = s.current_regime]]
        ELSE [error |-> NoError, val |-> r.val]

\* regime_index of set_status after the range check
SanitisedRegimeIndex(i) == IF i < 0 \/ i >= NUM_REGIMES_ THEN 0 ELSE i

\* the values an uninitialised long may hold
UninitialisedLongs == {-1, 0, 1, 7}

NoKeys ==
    [tauLTP |-> Absent, aLTP |-> Absent, tauLTD |-> Absent, aLTD |-> Absent,
     wmax |-> Absent, wmin |-> Absent,
     tlast_post |-> Absent, tlast_pre |-> Absent, deltaw |-> Absent,
     M |-> Absent, P |-> Absent, wsyn |-> Absent,
     regime |-> Absent,      \* the key "__regime__"
     parent_ok |-> TRUE]     \* Archiving_Node::set_status accepts d

\* the dictionaries the model passes to set_status
ParameterDict ==
    [NoKeys EXCEPT !.tauLTP = Double(1), !.aLTP = Double(4),
                   !.tauLTD = Double(2), !.aLTD = Double(2),
                   !.wmax = Double(16), !.wmin = Double(2)]
NearMaxDict ==
    [NoKeys EXCEPT !.wsyn = Double(15), !.M = Double(4), !.P = Double(0),
                   !.regime = Long(0)]
DepressingDict ==
    [NoKeys EXCEPT !.wsyn = Double(15), !.M = Double(-1), !.P = Double(4)]
AboveMaxDict ==
    [NoKeys EXCEPT !.wsyn = Double(20), !.M = Double(0), !.P = Double(0),
                   !.regime = Long(5)]
BadParameterDict ==
    [NoKeys EXCEPT !.tauLTP = Double(3), !.aLTP = String, !.wsyn = Double(9)]
BadStateDict ==
    [NoKeys EXCEPT !.wmax = Double(24), !.deltaw = Double(1), !.M = String]
BadRegimeDict ==
    [NoKeys EXCEPT !.wmax = Double(24), !.wsyn = Double(9), !.regime = String]
RejectedByParentDict ==
    [NoKeys EXCEPT !.wmin = Double(1), !.P = Double(2), !.parent_ok = FALSE]
Dicts ==
    {ParameterDict, NearMaxDict, DepressingDict, AboveMaxDict, BadParameterDict,
     BadStateDict, BadRegimeDict, RejectedByParentDict}

\* a std::string token: def<std::string>(d, key, name)
StringOf(name) == [kind |-> "string", v |-> 0, name |-> name]

\* get_status(d): Parameters_::get and State_::get write the six parameters
\* and the six state variables as doubles and the current regime's name as a
\* string under "__regime__"; the keys of the parent class are its own
get_status(p, st) ==
    [k \in DOMAIN NoKeys |->
        IF k = "parent_ok" THEN TRUE
        ELSE IF k = "regime" THEN StringOf(st.current_regime.name)
        ELSE IF k \in DOMAIN p THEN Double(p[k])
        ELSE Double(st[k])]

(***************************************************************************)
(* Configuration: init_node_, init_state_, set_status, init_buffers_       *)
(***************************************************************************)
update_vars == <<pc, slice, origin, lag, to, end_of_step_t,
                 simultaneous_transition_count, transition, weight_>>
obs_vars == <<step_obs, edge_obs>>

\* void init_node_(const Node& proto)
init_node_(prP) ==
    /\ pc = "idle"
    /\ this = "node"
    /\ ~buffers_initialized
    /\ workload = "sparse"
    /\ P_' = prP
    /\ S_' = NewState(prP, regimes[1])
    /\ error' = NoError
    /\ UNCHANGED <<this, regimes, target_regime, active, event_port, events_lag,
                   buffers_initialized, update_vars, obs_vars, n_handled,
                   workload,
                   connections, logger_>>

\* void init_state_(const Node& proto)
init_state_(prP) ==
    /\ pc = "idle"
    /\ this = "node"
    /\ ~buffers_initialized
    /\ workload = "sparse"
    /\ S_' = NewState(prP, regimes[1])
    /\ error' = NoError
    /\ UNCHANGED <<this, regimes, target_regime, active, P_, event_port,
                   events_lag, buffers_initialized, update_vars, obs_vars,
                   n_handled, workload,
                   connections, logger_>>

\* Variant: a set_status that stores the parameters before the parent class
\* has accepted the dictionary.
CommitsBeforeParent(d, uninit, ndebug) ==
    LET ptmp == ParametersSet(P_, d)
        stmp == StateSet(CopyState(S_), d, regimes[1])
    IN  IF d.regime.kind \notin {"absent", "long"} \/ ~ptmp.ok \/ ~stmp.ok
        THEN [P |-> P_, S |-> S_, error |-> Error("TypeMismatch")]
        ELSE IF ~d.parent_ok
        THEN [P |-> ptmp.val, S |-> S_, error |-> Error("BadProperty")]
        ELSE [P |-> ptmp.val, S |-> CopyState(stmp.val), error |-> NoError]

\* Variant: a set_status that rejects a regime index out of range.
RejectsOutOfRange(d, uninit, ndebug) ==
    LET regime_index == IF d.regime.kind = "long" THEN d.regime.v ELSE uninit
        ptmp == ParametersSet(P_, d)
        stmp == StateSetCall(CopyState(S_), d, regimes[1], ndebug)
    IN  IF d.regime.kind \notin {"absent", "long"}
        THEN [P |-> P_, S |-> S_, error |-> Error("TypeMismatch")]
        ELSE IF regime_index < 0 \/ regime_index >= NUM_REGIMES_
        THEN [P |-> P_, S |-> S_, error |-> Error("BadProperty")]
        ELSE IF ~ptmp.ok \/ stmp.error # NoError \/ ~d.parent_ok
        THEN [P |-> P_, S |-> S_, error |-> Error("BadProperty")]
        ELSE [P |-> ptmp.val, S |-> CopyState(stmp.val), error |-> NoError]

\* set_status(d): what is committed to (P_, S_) and what is raised; uninit is
\* the value regime_index holds when d has no "__regime__" key, ndebug tells
\* whether the build compiles the asserts out
SetStatusOutcome(d, uninit, ndebug) ==
    LET regime_index == IF d.regime.kind = "long" THEN d.regime.v ELSE uninit
        regime == regimes[SanitisedRegimeIndex(regime_index) + 1]
        ptmp == ParametersSet(P_, d)
        stmp == StateSetCall(CopyState(S_), d, regime, ndebug)
    IN  IF d.regime.kind \notin {"absent", "long"}
        THEN [P |-> P_, S |-> S_, error |-> Error("TypeMismatch")]
        ELSE IF ~ptmp.ok
        THEN [P |-> P_, S |-> S_, error |-> Error("TypeMismatch")]
        ELSE IF stmp.error # NoError
        THEN [P |-> P_, S |-> S_, error |-> stmp.error]
        ELSE IF ~d.parent_ok
        THEN [P |-> P_, S |-> S_, error |-> Error("BadProperty")]
        ELSE [P |-> ptmp.val, S |-> CopyState(stmp.val), error |-> NoError]

\* void set_status(const DictionaryDatum& d)
set_status(d) ==
    /\ pc = "idle"
    /\ ~buffers_initialized
    /\ workload = "sparse"
    /\ \E uninit \in UninitialisedLongs, ndebug \in BOOLEAN :
          LET out == SetStatusOutcome(d, uninit, ndebug)
          IN  /\ P_' = out.P
              /\ S_' = out.S
              /\ error' = out.error
    /\ UNCHANGED <<this, regimes, target_regime, active, event_port, events_lag,
                   buffers_initialized, update_vars, obs_vars, n_handled,
                   workload,
                   connections, logger_>>

\* Variant: a set_trigger that evaluates its expression whatever the latch.
SetTriggerUnconditional(act, s, p) == FLess(s.wsyn, p.wmax)

\* soleOnCondition0::set_trigger: the latch after the call
soleOnCondition0_set_trigger(act, s, p) ==
    IF ~act THEN FLess(s.wsyn, p.wmax) ELSE act

\* soleOnCondition1::set_trigger: the latch after the call
soleOnCondition1_set_trigger(act, s, p) ==
    IF ~act THEN FGreater(s.wsyn, p.wmin) ELSE act

set_trigger(c, act, s, p) ==
    IF c = "soleOnCondition0" THEN soleOnCondition0_set_trigger(act, s, p)
    ELSE soleOnCondition1_set_trigger(act, s, p)

\* the trigger expression of an on-condition, whatever its latch
Guard(c, s, p) ==
    IF c = "soleOnCondition0" THEN FGreater(s.wsyn, p.wmax)
    ELSE FLess(s.wsyn, p.wmin)

\* history: set_trigger evaluates the state only when the latch is clear
SeenFalseAfter(seen, act, s, p) ==
    [c \in OnConditions |-> seen[c] \/ (~act[c] /\ ~Guard(c, s, p))]

\* Regime_::set_triggers
set_triggers(act, s, p) == [c \in OnConditions |-> set_trigger(c, act[c], s, p)]

\* wmin <= wsyn <= wmax, as comparisons of doubles
WithinBounds(s, p) ==
    /\ ~IsNaN(s.wsyn) /\ ~IsNaN(p.wmin) /\ ~IsNaN(p.wmax)
    /\ p.wmin <= s.wsyn
    /\ s.wsyn <= p.wmax

\* void init_buffers_()
init_buffers_ ==
    /\ pc = "idle"
    /\ this = "node"
    /\ ~buffers_initialized
    /\ event_port' = [p \in Ports |-> ClearedPort]
    /\ active' = set_triggers(active, S_, P_)
    /\ buffers_initialized' = TRUE
    /\ logger_' = <<>>
    /\ error' = NoError
    /\ edge_obs' = [edge_obs EXCEPT
                        !.seen_false = SeenFalseAfter(@, active, S_, P_),
                        !.bounded = WithinBounds(S_, P_)]
    /\ UNCHANGED <<this, regimes, target_regime, P_, S_, events_lag,
                   update_vars, step_obs, n_handled, workload,
                   connections>>

(***************************************************************************)
(* Wiring: handles_test_event                                              *)
(***************************************************************************)
\* the receptor types a connection may ask for, and the test events the
\* environment sends: any event type with any receptor type, or the one
\* connection the burst arrives on
ReceptorTypes == (0 - 2)..(SUP_EVENT_PORT_ + 1)
TestEvents ==
    IF workload = "sparse"
    THEN [event : {"SpikeEvent", "CurrentEvent"}, receptor_type : ReceptorTypes]
    ELSE [event : {"SpikeEvent"}, receptor_type : {presynaptic_spike_EVENT_PORT}]

\* Variant: a spike port check without the lower bound MIN_EVENT_PORT_.
AcceptsPortZero(receptor_type) ==
    IF receptor_type < 0 \/ receptor_type >= SUP_EVENT_PORT_
    THEN [error |-> Error("UnknownReceptorType"), port |-> receptor_type]
    ELSE [error |-> NoError, port |-> receptor_type]

\* nest::port handles_test_event(nest::SpikeEvent&, nest::port receptor_type)
handles_test_event_SpikeEvent(receptor_type) ==
    IF receptor_type < 0 \/ receptor_type >= SUP_EVENT_PORT_
    THEN [error |-> Error("UnknownReceptorType"), port |-> receptor_type]
    ELSE IF receptor_type < MIN_EVENT_PORT_
    THEN [error |-> Error("IncompatibleReceptorType"), port |-> receptor_type]
    ELSE [error |-> NoError, port |-> receptor_type]

\* nest::port handles_test_event(nest::CurrentEvent&, nest::port receptor_type)
handles_test_event_CurrentEvent(receptor_type) ==
    IF receptor_type < 0 \/ receptor_type >= SUP_ANALOG_PORT_
    THEN [error |-> Error("UnknownReceptorType"), port |-> receptor_type]
    ELSE IF receptor_type < MIN_ANALOG_PORT_
    THEN [error |-> Error("IncompatibleReceptorType"), port |-> receptor_type]
    ELSE [error |-> NoError, port |-> receptor_type]

handles_test_event(event, receptor_type) ==
    IF event = "SpikeEvent" THEN handles_test_event_SpikeEvent(receptor_type)
    ELSE handles_test_event_CurrentEvent(receptor_type)

\* a connection to this node is requested, before the simulation starts: the
\* sender's send_test_event calls handles_test_event, and the port it
\* returns becomes the rport of the connection's events
connect(te) ==
    /\ pc = "idle"
    /\ this = "node"
    /\ ~buffers_initialized
    /\ LET out == handles_test_event(te.event, te.receptor_type)
       IN  /\ error' = out.error
           /\ connections' =
                 IF out.error = NoError
                 THEN connections \cup {[event |-> te.event, rport |-> out.port]}
                 ELSE connections
    /\ UNCHANGED <<this, regimes, target_regime, active, P_, S_, event_port,
                   events_lag, buffers_initialized, update_vars, obs_vars,
                   n_handled, workload, logger_>>

(***************************************************************************)
(* Event ingress: handle(SpikeEvent)                                       *)
(***************************************************************************)
\* the buffer handle selects for an rport, if any
PortOf(rport) ==
    IF rport = presynaptic_spike_EVENT_PORT THEN "presynaptic_spike"
    ELSE IF rport = postsynaptic_spike_EVENT_PORT THEN "postsynaptic_spike"
    ELSE "unrecognised"

Copies(m, w) == [i \in 1..m |-> w]

\* the rports of the spike connections made to this node
SpikeRports == {c.rport : c \in {x \in connections : x.event = "SpikeEvent"}}

\* the spike events the environment delivers, over the connections made:
\* single spikes, one per call, or one call whose multiplicity is around the
\* ceiling of simultaneous transitions; the weight tells the events of a
\* list apart
SpikeEvents ==
    IF workload = "sparse"
    THEN {[rport |-> r, multiplicity |-> 1, lag |-> l,
           weight |-> Len(event_port[PortOf(r)][l]) + 1] :
               r \in SpikeRports, l \in Lags}
    ELSE [rport : SpikeRports,
          multiplicity : {MAX_SIMULTANEOUS_TRANSITIONS,
                          MAX_SIMULTANEOUS_TRANSITIONS + 1,
                          MAX_SIMULTANEOUS_TRANSITIONS + 2},
          lag : Lags, weight : {1}]

\* ListRingBuffer::append_value(lag, weight), multiplicity times
AppendValues(port, e) ==
    [port EXCEPT ![e.lag] = port[e.lag] \o Copies(e.multiplicity, e.weight)]

\* void handle(nest::SpikeEvent& e); on an unrecognised rport assert(false)
\* aborts, or, the assert compiled out, the values are appended through an
\* uninitialised pointer
handle(e) ==
    /\ pc = "idle"
    /\ buffers_initialized
    /\ slice < MaxSlices
    /\ n_handled < (IF workload = "sparse" THEN MaxEvents ELSE 1)
    /\ IF PortOf(e.rport) \in Ports
       THEN /\ event_port' = [event_port EXCEPT
                   ![PortOf(e.rport)] = AppendValues(event_port[PortOf(e.rport)], e)]
            /\ error' = NoError
            /\ pc' = pc
       ELSE /\ event_port' = event_port
            /\ \E outcome \in {"AssertionFailed", "UndefinedBehaviour"} :
                  error' = Error(outcome)
            /\ pc' = "aborted"
    /\ n_handled' = n_handled + 1
    /\ UNCHANGED <<this, regimes, target_regime, active, P_, S_, events_lag,
                   buffers_initialized, slice, origin, lag, to, end_of_step_t,
                   simultaneous_transition_count, transition, weight_,
                   obs_vars, workload, connections, logger_>>

(***************************************************************************)
(* Transitions of the sole regime                                          *)
(***************************************************************************)
\* B_.<port>_events: the list of the lag refresh_events selected
events(port) == event_port[port][events_lag]

\* Variant: a received that inspects the list of the other port.
ReceivedOnOtherPort(ev) ==
    IF ev = "soleOnpresynaptic_spikeEvent"
    THEN Len(events("postsynaptic_spike")) # 0
    ELSE Len(events("presynaptic_spike")) # 0

\* soleOnpresynaptic_spikeEvent::received, soleOnpostsynaptic_spikeEvent::received
received(ev) ==
    IF ev = "soleOnpresynaptic_spikeEvent"
    THEN Len(events("presynaptic_spike")) # 0
    ELSE Len(events("postsynaptic_spike")) # 0

\* soleOnCondition0::triggered
soleOnCondition0_triggered(act, s, p) ==
    IF act THEN FGreater(s.wsyn, p.wmax) ELSE FALSE

\* soleOnCondition1::triggered
soleOnCondition1_triggered(act, s, p) ==
    IF act THEN FLess(s.wsyn, p.wmin) ELSE FALSE

triggered(c) ==
    IF c = "soleOnCondition0" THEN soleOnCondition0_triggered(active[c], S_, P_)
    ELSE soleOnCondition1_triggered(active[c], S_, P_)

\* time_occurred of all four transitions: the end of the window
time_occurred(tr, end_t) == end_t

\* Variant: a min_element that returns the last smallest element.
LastSmallest(times) ==
    CHOOSE i \in 1..Len(times) :
        /\ \A j \in 1..Len(times) : times[i] <= times[j]
        /\ \A j \in (i + 1)..Len(times) : times[j] > times[i]

\* std::min_element: the index of the first smallest element
min_element(times) ==
    CHOOSE i \in 1..Len(times) :
        /\ \A j \in 1..Len(times) : times[i] <= times[j]
        /\ \A j \in 1..(i - 1) : times[j] > times[i]

\* Variant: a transition() that collects the on-events before the
\* on-conditions.
EventsBeforeConditions ==
    SelectSeq(on_events, received) \o SelectSeq(on_conditions, triggered)

\* Variant: a transition() that does not ask the postsynaptic on-event.
OnlyPresynapticReceived ==
    SelectSeq(on_conditions, triggered)
        \o SelectSeq(<<"soleOnpresynaptic_spikeEvent">>, received)

\* the vector `occurred` of Regime_::transition
occurred ==
    SelectSeq(on_conditions, triggered) \o SelectSeq(on_events, received)

\* the transition Regime_::transition(end_of_step_t) selects
SelectedTransition(occ, end_t) ==
    IF Len(occ) = 0 THEN NoTransition
    ELSE IF Len(occ) = 1 THEN occ[1]
    ELSE occ[min_element([i \in 1..Len(occ) |-> time_occurred(occ[i], end_t)])]

\* Variant: a deactivate that clears every latch of the regime.
DeactivateAll(tr, act) == [c \in OnConditions |-> FALSE]

\* Variant: a deactivate that leaves the latch set.
DeactivateNothing(tr, act) == act

\* OnCondition_::deactivate / OnEvent_::deactivate, on the latches
deactivate(tr, act) ==
    IF tr \in OnConditions THEN [act EXCEPT ![tr] = FALSE] ELSE act

\* the bodies: the assignments in order, each reading the current contents
\* of S_.y_ (the locals are references into it)
\* Variant: a presynaptic body that stamps tlast_pre before it computes P.
PreBodyStampsFirst(s, p) ==
    LET t  == s.t
        s1 == [s EXCEPT !.tlast_pre = t]
        s2 == [s1 EXCEPT !.P =
                 FAdd(FMul(s1.P, FExpDiv(FAdd(0 - t, s1.tlast_pre), p.tauLTP)), p.aLTP)]
        s3 == [s2 EXCEPT !.deltaw =
                 FMul(FMul(s2.M, p.wmax), FExpDiv(FAdd(0 - t, s2.tlast_post), p.tauLTD))]
    IN  [s3 EXCEPT !.wsyn = FAdd(s3.deltaw, s3.wsyn)]

soleOnpresynaptic_spikeEvent_body(s, p) ==
    LET t  == s.t
        s1 == [s EXCEPT !.P =
                 FAdd(FMul(s.P, FExpDiv(FAdd(0 - t, s.tlast_pre), p.tauLTP)), p.aLTP)]
        s2 == [s1 EXCEPT !.tlast_pre = t]
        s3 == [s2 EXCEPT !.deltaw =
                 FMul(FMul(s2.M, p.wmax), FExpDiv(FAdd(0 - t, s2.tlast_post), p.tauLTD))]
    IN  [s3 EXCEPT !.wsyn = FAdd(s3.deltaw, s3.wsyn)]

\* Variant: a postsynaptic body that adds the deltaw it found to wsyn.
PostBodyAddsOldDeltaw(s, p) ==
    LET t  == s.t
        s1 == [s EXCEPT !.M =
                 FAdd(FMul(s.M, FExpDiv(FAdd(0 - t, s.tlast_post), p.tauLTD)), 0 - p.aLTD)]
        s2 == [s1 EXCEPT !.tlast_post = t]
        s3 == [s2 EXCEPT !.deltaw =
                 FMul(FMul(s2.P, p.wmax), FExpDiv(FAdd(0 - t, s2.tlast_pre), p.tauLTP))]
    IN  [s3 EXCEPT !.wsyn = FAdd(s.deltaw, s3.wsyn)]

soleOnpostsynaptic_spikeEvent_body(s, p) ==
    LET t  == s.t
        s1 == [s EXCEPT !.M =
                 FAdd(FMul(s.M, FExpDiv(FAdd(0 - t, s.tlast_post), p.tauLTD)), 0 - p.aLTD)]
        s2 == [s1 EXCEPT !.tlast_post = t]
        s3 == [s2 EXCEPT !.deltaw =
                 FMul(FMul(s2.P, p.wmax), FExpDiv(FAdd(0 - t, s2.tlast_pre), p.tauLTP))]
    IN  [s3 EXCEPT !.wsyn = FAdd(s3.deltaw, s3.wsyn)]

\* Variant: a clamp body that also clears deltaw.
ClampResetsDeltaw(s, p) == [s EXCEPT !.wsyn = p.wmax, !.deltaw = 0]

soleOnCondition0_body(s, p) == [s EXCEPT !.wsyn = p.wmax]

soleOnCondition1_body(s, p) == [s EXCEPT !.wsyn = p.wmin]

\* the value transition->body() returns: true in all four bodies
body_returns(tr) == TRUE

\* Variant: a discontinuity flag that ignores what the body returned.
OnlyRegimeChange(tr, s) == target_regime[tr] # s.current_regime

\* bool discontinuous = transition->body() || (target regime != S_.current_regime),
\* s being the state the body has left
discontinuous(tr, s) ==
    body_returns(tr) \/ target_regime[tr] # s.current_regime

\* the state after transition->body()
body(tr, s, p) ==
    IF tr = "soleOnpresynaptic_spikeEvent" THEN soleOnpresynaptic_spikeEvent_body(s, p)
    ELSE IF tr = "soleOnpostsynaptic_spikeEvent" THEN soleOnpostsynaptic_spikeEvent_body(s, p)
    ELSE IF tr = "soleOnCondition0" THEN soleOnCondition0_body(s, p)
    ELSE soleOnCondition1_body(s, p)

\* the port whose list a body pops, if any
PoppedPort(tr) ==
    IF tr = "soleOnpresynaptic_spikeEvent" THEN {"presynaptic_spike"}
    ELSE IF tr = "soleOnpostsynaptic_spikeEvent" THEN {"postsynaptic_spike"}
    ELSE {}

\* front() / pop_front() of the bodies, on the event ports
PopFront(ports, tr) ==
    [q \in Ports |->
        IF q \in PoppedPort(tr)
        THEN [ports[q] EXCEPT ![events_lag] = Tail(ports[q][events_lag])]
        ELSE ports[q]]

(***************************************************************************)
(* update(origin, from, to)                                                *)
(***************************************************************************)
config_vars == <<this, regimes, target_regime, P_, buffers_initialized,
                 n_handled, workload, connections>>

\* the call: the kernel updates one whole slice, lags 0 .. min_delay - 1
update_call ==
    /\ pc = "idle"
    /\ buffers_initialized
    /\ slice < MaxSlices
    /\ origin' = slice * MinDelay * dt
    /\ lag' = 0
    /\ to' = MinDelay
    /\ pc' = "step"
    /\ error' = NoError
    /\ UNCHANGED <<config_vars, logger_, obs_vars, active, S_, event_port, events_lag,
                   slice, end_of_step_t, simultaneous_transition_count,
                   transition, weight_>>

\* Variant: a start-of-step stamp that lies at the end of the window.
StartAtEnd(org, l) == org + (l + 1) * dt

\* Variant: a step_ode that lets P decay to 0.
DecaysP(s) == [s EXCEPT !.P = 0]

\* soleRegime_::step_ode: the sole regime has no differential equations
step_ode(s) == s

\* S_.t = origin.get_ms(), at every lag
StartOfStepTime(org, l) == org

\* top of the for loop: S_.t = origin.get_ms(); step_ode(); refresh_events(lag);
\* end_of_step_t; simultaneous_transition_count = 0

step_begin ==
    /\ pc = "step"
    /\ S_' = step_ode([S_ EXCEPT !.t = StartOfStepTime(origin, lag)])
    /\ events_lag' = lag
    /\ end_of_step_t' = origin + lag * dt
    /\ simultaneous_transition_count' = 0
    /\ transition' = NoTransition
    /\ pc' = "while"
    /\ step_obs' = [NoStep EXCEPT
                        !.start_t = StartOfStepTime(origin, lag),
                        !.start_wsyn = S_.wsyn,
                        !.start_S = S_,
                        !.start_active = active,
                        !.start_regime = S_.current_regime,
                        !.start_lists = [q \in Ports |-> event_port[q][lag]],
                        !.steady = [c \in OnConditions |-> Guard(c, S_, P_)]]
    /\ UNCHANGED <<config_vars, logger_, edge_obs, active, event_port, slice, origin,
                   lag, to, weight_, error>>

\* the loop condition: transition = S_.current_regime->transition(end_of_step_t)
regime_transition ==
    /\ pc = "while"
    /\ LET tr == SelectedTransition(occurred, end_of_step_t)
       IN  /\ transition' = tr
           /\ active' = IF tr = NoTransition THEN active ELSE deactivate(tr, active)
           /\ pc' = IF tr = NoTransition THEN "after" ELSE "body"
    /\ UNCHANGED <<config_vars, logger_, obs_vars, S_, event_port, events_lag, slice,
                   origin, lag, to, end_of_step_t,
                   simultaneous_transition_count, weight_, error>>

\* Variant: a counter that every transition resets.
CountAlwaysReset(t, s, count) == 0

\* the count after the comparison of the transition's time with S_.t
CountAfter(t, s, count) == IF t = s.t THEN count + 1 ELSE 0

\* Variant: a loop body that compares the count with the ceiling after
\* transition->body().
ThrowsAfterBody ==
    /\ pc = "body"
    /\ LET t == time_occurred(transition, end_of_step_t)
           n == CountAfter(t, S_, simultaneous_transition_count)
       IN  /\ t = S_.t
           /\ n > MAX_SIMULTANEOUS_TRANSITIONS
           /\ simultaneous_transition_count' = n
           /\ error' = ExceededMaximumSimultaneousTransitions("StdpSongAbbott", n, t)
           /\ S_' = body(transition, S_, P_)
           /\ event_port' = PopFront(event_port, transition)
    /\ pc' = "thrown"
    /\ UNCHANGED <<config_vars, logger_, obs_vars, active, events_lag,
                   slice, origin, lag, to, end_of_step_t, transition, weight_>>

\* the loop body when the ceiling is exceeded: the throw
exceed_ceiling ==
    /\ pc = "body"
    /\ LET t == time_occurred(transition, end_of_step_t)
           n == CountAfter(t, S_, simultaneous_transition_count)
       IN  /\ t = S_.t
           /\ n > MAX_SIMULTANEOUS_TRANSITIONS
           /\ simultaneous_transition_count' = n
           /\ error' = ExceededMaximumSimultaneousTransitions("StdpSongAbbott", n, t)
    /\ pc' = "thrown"
    /\ UNCHANGED <<config_vars, logger_, obs_vars, active, S_, event_port, events_lag,
                   slice, origin, lag, to, end_of_step_t, transition, weight_>>

\* the loop body otherwise: time bookkeeping, body(), the regime change,
\* set_triggers() and init_solver() (empty for the sole regime)
fire_transition ==
    /\ pc = "body"
    /\ LET t  == time_occurred(transition, end_of_step_t)
           n  == CountAfter(t, S_, simultaneous_transition_count)
           s0 == IF t = S_.t THEN S_ ELSE [S_ EXCEPT !.t = t]
           s1 == body(transition, s0, P_)
           s2 == [s1 EXCEPT !.current_regime = target_regime[transition]]
       IN  /\ ~(t = S_.t /\ n > MAX_SIMULTANEOUS_TRANSITIONS)
           /\ simultaneous_transition_count' = n
           /\ weight_' = IF transition \in OnEvents
                         THEN Head(events(CHOOSE q \in PoppedPort(transition) : TRUE))
                         ELSE weight_
           /\ event_port' = PopFront(event_port, transition)
           /\ S_' = s2
           /\ active' = set_triggers(active, s2, P_)
           /\ step_obs' = [step_obs EXCEPT
                 !.fired[transition] = @ + 1,
                 !.init_solver = @ + (IF discontinuous(transition, s1) THEN 1 ELSE 0),
                 !.pre_raised = @ \/ ( /\ transition = "soleOnpresynaptic_spikeEvent"
                                        /\ ~Guard("soleOnCondition0", s0, P_)
                                        /\ Guard("soleOnCondition0", s1, P_) ),
                 !.steady = [c \in OnConditions |-> @[c] /\ Guard(c, s2, P_)]]
           /\ edge_obs' = [edge_obs EXCEPT
                 !.has_fired = [c \in OnConditions |-> @[c] \/ c = transition],
                 !.seen_false = SeenFalseAfter(
                                   [c \in OnConditions |-> @[c] /\ c # transition],
                                   active, s2, P_),
                 !.held_fires = [c \in OnConditions |->
                                   IF c = transition THEN @[c] + 1 ELSE @[c]]]
    /\ pc' = "while"
    /\ UNCHANGED <<config_vars, logger_, events_lag, slice, origin, lag, to,
                   end_of_step_t, transition, error>>

\* Variant: a record_data that reads the values the step began with.
RecordsStartOfStep(step, s, act) ==
    [step |-> step,
     tlast_post |-> s.tlast_post, tlast_pre |-> s.tlast_pre,
     deltaw |-> s.deltaw, M |-> s.M, P |-> s.P, wsyn |-> step_obs.start_wsyn,
     regime |-> s.current_regime.index,
     at_t |-> s.t, at_active |-> act]

\* B_.logger_.record_data(step): the recordables (the six state variables
\* and the index of the current regime) as the accessors read them at the
\* call, with S_.t and the latches as they are at the call
record_data(step, s, act) ==
    [step |-> step,
     tlast_post |-> s.tlast_post, tlast_pre |-> s.tlast_pre,
     deltaw |-> s.deltaw, M |-> s.M, P |-> s.P, wsyn |-> s.wsyn,
     regime |-> s.current_regime.index,
     at_t |-> s.t, at_active |-> act]

\* after the loop: S_.t = end_of_step_t; set_triggers(); record_data; ++lag
step_end ==
    /\ pc = "after"
    /\ LET s == [S_ EXCEPT !.t = end_of_step_t]
       IN  /\ S_' = s
           /\ active' = set_triggers(active, s, P_)
           /\ edge_obs' = [edge_obs EXCEPT
                 !.seen_false = SeenFalseAfter(@, active, s, P_),
                 !.held = [c \in OnConditions |->
                             IF step_obs.steady[c] THEN @[c] + 1 ELSE 0],
                 !.held_fires = [c \in OnConditions |->
                                   IF step_obs.steady[c] THEN @[c] ELSE 0]]
           /\ logger_' = Append(logger_,
                 record_data(origin \div dt + lag, s, set_triggers(active, s, P_)))
    /\ step_obs' = [step_obs EXCEPT !.done = TRUE]
    /\ lag' = lag + 1
    /\ pc' = IF lag + 1 < to THEN "step" ELSE "idle"
    /\ slice' = IF lag + 1 < to THEN slice ELSE slice + 1
    /\ UNCHANGED <<config_vars, event_port, events_lag, origin, to,
                   end_of_step_t, simultaneous_transition_count, transition,
                   weight_, error>>

Next ==
    \/ \E prP \in PrototypeParameters : init_node_(prP)
    \/ \E prP \in PrototypeParameters : init_state_(prP)
    \/ \E d \in Dicts \cup {get_status(P_, S_)} : set_status(d)
    \/ \E te \in TestEvents : connect(te)
    \/ init_buffers_
    \/ \E e \in SpikeEvents : handle(e)
    \/ update_call
    \/ step_begin
    \/ regime_transition
    \/ exceed_ceiling
    \/ fire_transition
    \/ step_end

Spec == Init /\ [][Next]_vars

(***************************************************************************)
(* Properties                                                              *)
(***************************************************************************)
RegimeSet == {regimes[i] : i \in 1..Len(regimes)}

\* C1: in every reachable state (after default and copy construction,
\* init_node_, init_state_, set_status and every step of update) the current
\* regime is one of the regimes this instance constructed for itself.
C1_RegimeInvariant ==
    /\ S_.current_regime \in RegimeSet
    /\ S_.current_regime.cell = this

\* a copy-constructed, reconfigured node in the middle of a step, after a
\* transition moved it to its target regime
C1_Witness ==
    /\ this = "node"
    /\ P_ = TypicalParameters
    /\ S_.wsyn # 0
    /\ pc = "while"
    /\ transition \in Transitions

SetStatusErrors == {"TypeMismatch", "BadProperty", "AssertionFailed"}

\* C7: a set_status call that raises (a bad parameter value, a bad state
\* value, a bad regime key, or the parent class rejecting the dictionary)
\* leaves P_ and S_ as they were; they change in a set_status call only when
\* nothing was raised.
C7_TransactionalSetStatus ==
    [][ (error'.name \in SetStatusErrors) => (P_' = P_ /\ S_' = S_) ]_vars

\* the parent class rejected a dictionary whose own keys were all valid,
\* after an earlier set_status had been committed
C7_Witness ==
    /\ error.name = "BadProperty"
    /\ P_ = TypicalParameters
    /\ S_.wsyn = 15
    /\ S_.P = 0

\* C8: the postsynaptic body sets deltaw to P * wmax * exp((tlast_pre - t) /
\* tauLTP), from the values of P and tlast_pre before the firing, and then
\* sets wsyn to its old value plus that new deltaw.
C8_StdpIncrement ==
    [][ (pc = "body" /\ pc' = "while"
           /\ transition = "soleOnpostsynaptic_spikeEvent") =>
        LET t == end_of_step_t
            new_deltaw == FMul(FMul(S_.P, P_.wmax),
                               FExpDiv(FAdd(0 - t, S_.tlast_pre), P_.tauLTP))
        IN  /\ S_'.deltaw = new_deltaw
            /\ S_'.wsyn = FAdd(S_.wsyn, new_deltaw) ]_vars

\* a postsynaptic firing has just left a non-zero increment in deltaw
C8_Witness ==
    /\ pc = "while"
    /\ transition = "soleOnpostsynaptic_spikeEvent"
    /\ S_.tlast_post = S_.t
    /\ ~IsNaN(S_.deltaw)
    /\ S_.deltaw > 0
    /\ S_.wsyn > S_.deltaw

\* the declared order of the sole regime's transitions
DeclaredOrder ==
    <<"soleOnCondition0", "soleOnCondition1",
      "soleOnpresynaptic_spikeEvent", "soleOnpostsynaptic_spikeEvent">>

\* a transition is a candidate: an armed on-condition whose guard holds, or
\* an on-event whose list holds an event
Candidate(tr) ==
    \/ tr \in OnConditions /\ active[tr] /\ Guard(tr, S_, P_)
    \/ tr = "soleOnpresynaptic_spikeEvent" /\ event_port["presynaptic_spike"][events_lag] # <<>>
    \/ tr = "soleOnpostsynaptic_spikeEvent" /\ event_port["postsynaptic_spike"][events_lag] # <<>>

\* C9: Regime_::transition returns no transition exactly when there is no
\* candidate; otherwise it returns a candidate of minimal time_occurred, and
\* among candidates of equal time the first in declared order.
C9_TransitionSelection ==
    [][ pc = "while" =>
        LET cands == {i \in 1..Len(DeclaredOrder) : Candidate(DeclaredOrder[i])}
            time(i) == time_occurred(DeclaredOrder[i], end_of_step_t)
            earliest == {i \in cands : \A j \in cands : time(i) <= time(j)}
        IN  IF cands = {} THEN transition' = NoTransition
            ELSE \E i \in earliest :
                    /\ \A j \in earliest : i <= j
                    /\ transition' = DeclaredOrder[i] ]_vars

\* the upper-bound condition was returned while a presynaptic event was
\* queued for the same time
C9_Witness ==
    /\ pc = "body"
    /\ transition = "soleOnCondition0"
    /\ event_port["presynaptic_spike"][events_lag] # <<>>

\* C10: when Regime_::transition returns an on-condition it clears that
\* on-condition's latch and no other; when it returns an on-event or no
\* transition it changes no latch.
C10_LatchDeactivation ==
    [][ pc = "while" =>
        /\ transition' \in OnConditions =>
              /\ ~active'[transition']
              /\ \A c \in OnConditions \ {transition'} : active'[c] = active[c]
        /\ transition' \notin OnConditions => active' = active ]_vars

\* the upper-bound condition was returned and only its latch is clear
C10_Witness ==
    /\ pc = "body"
    /\ transition = "soleOnCondition0"
    /\ ~active["soleOnCondition0"]
    /\ active["soleOnCondition1"]

\* the bodies run so far in the step
TotalFired ==
    step_obs.fired["soleOnCondition0"] + step_obs.fired["soleOnCondition1"]
    + step_obs.fired["soleOnpresynaptic_spikeEvent"]
    + step_obs.fired["soleOnpostsynaptic_spikeEvent"]

\* no on-condition fires again before a set_trigger call has evaluated its
\* guard and found it false
FalseBetweenFirings ==
    \A c \in OnConditions :
        (pc = "body" /\ transition = c /\ edge_obs.has_fired[c])
            => edge_obs.seen_false[c]

\* C2: between any two firings of an on-condition a set_triggers evaluation
\* found its guard false; and a guard that stays true throughout N >= 1
\* consecutive steps produces no firing of its on-condition in those steps
\* (its latch stays clear for as long as the guard holds).
C2_EdgeTriggering ==
    /\ FalseBetweenFirings
    /\ \A c \in OnConditions :
          (step_obs.done /\ edge_obs.held[c] >= 1) => edge_obs.held_fires[c] = 0

\* the upper-bound condition is about to fire for the second time
C2_Witness ==
    /\ pc = "body"
    /\ transition = "soleOnCondition0"
    /\ edge_obs.has_fired["soleOnCondition0"]
    /\ edge_obs.seen_false["soleOnCondition0"]

\* C2 as the specification words it: a guard that stays true throughout
\* N >= 1 consecutive steps produces exactly one firing.
C2_ExactlyOneFiring ==
    /\ FalseBetweenFirings
    /\ \A c \in OnConditions :
          (step_obs.done /\ edge_obs.held[c] >= 1) => edge_obs.held_fires[c] = 1

\* C3 as the specification words it: if a step begins with wsyn < wmax and
\* the upper-bound condition armed, and a presynaptic event of the step
\* raises wsyn above wmax, then the condition fires in that step, wsyn equals
\* wmax when the step ends, and the regime is the one the step began in.
C3_WeightClamp ==
    ( /\ step_obs.done
      /\ FLess(step_obs.start_wsyn, P_.wmax)
      /\ step_obs.start_active["soleOnCondition0"]
      /\ step_obs.pre_raised )
    => ( /\ step_obs.fired["soleOnCondition0"] >= 1
         /\ S_.wsyn = P_.wmax
         /\ S_.current_regime = step_obs.start_regime )

\* C4 as the specification words it: update aborts after exactly
\* MAX_SIMULTANEOUS_TRANSITIONS firings at one timestamp, in whichever step,
\* and the exception carries that number of firings, the model name and the
\* time.
C4_CeilingCount ==
    pc = "thrown" =>
        /\ TotalFired = MAX_SIMULTANEOUS_TRANSITIONS
        /\ error.name = "ExceededMaximumSimultaneousTransitions"
        /\ error.num_transitions = TotalFired
        /\ error.model = "StdpSongAbbott"
        /\ error.t = end_of_step_t

EventOf(port) ==
    IF port = "presynaptic_spike" THEN "soleOnpresynaptic_spikeEvent"
    ELSE "soleOnpostsynaptic_spikeEvent"

\* C5 as the specification words it: of the N events queued on a port for a
\* step, the port's on-event consumes the first k in arrival order in its
\* first k firings, and when the step is over it has fired exactly N times.
C5_EventFifo ==
    \A q \in Ports :
        LET queued == step_obs.start_lists[q]
            k == step_obs.fired[EventOf(q)]
        IN  /\ pc \in {"while", "body", "after", "thrown"} =>
                 /\ k <= Len(queued)
                 /\ event_port[q][events_lag] = SubSeq(queued, k + 1, Len(queued))
            /\ pc \in {"after", "thrown"} => k = Len(queued)

\* C6: the loop of a step ends: every firing but possibly the first of a
\* step is counted, and the count never passes the ceiling by more than one,
\* so that the loop returns after at most MAX_SIMULTANEOUS_TRANSITIONS + 1
\* firings or raises; and a selected transition can always run (an on-event
\* is only selected while its list holds an event to take).
C6_LoopTerminates ==
    /\ simultaneous_transition_count <= MAX_SIMULTANEOUS_TRANSITIONS + 1
    /\ TotalFired <= simultaneous_transition_count + 1
    /\ pc = "body" =>
          /\ transition \in Transitions
          /\ \A q \in PoppedPort(transition) : event_port[q][events_lag] # <<>>

\* the loop returned after as many firings as the ceiling allows
C6_Witness ==
    /\ pc = "after"
    /\ TotalFired = MAX_SIMULTANEOUS_TRANSITIONS

\* the steps that call set_triggers: the loop body, the end of a step and
\* init_buffers_
CallsSetTriggers ==
    \/ pc = "body" /\ pc' = "while"
    \/ pc = "after"
    \/ ~buffers_initialized /\ buffers_initialized'

\* C11: a set_triggers call arms a clear latch only if the on-condition's
\* guard is false in the state the call evaluates, and it leaves every set
\* latch set, also when the guard holds at that moment.
C11_SetTriggersArming ==
    [][ CallsSetTriggers =>
        \A c \in OnConditions :
            /\ (~active[c] /\ active'[c]) => ~Guard(c, S_', P_')
            /\ active[c] => active'[c] ]_vars

\* after a loop body that raised wsyn above wmax, the latch of the
\* upper-bound condition is still set although its guard holds
C11_Witness ==
    /\ pc = "while"
    /\ TotalFired >= 1
    /\ active["soleOnCondition0"]
    /\ Guard("soleOnCondition0", S_, P_)

\* the states a set_triggers call has just produced
AfterSetTriggers ==
    \/ pc = "while" /\ TotalFired >= 1
    \/ pc \in {"step", "idle"} /\ step_obs.done
    \/ pc = "idle" /\ buffers_initialized /\ slice = 0

\* C12 as the specification words it: after every set_triggers call every
\* on-condition whose guard is false is armed, also right after a clamp body
\* has set wsyn to exactly wmax or wmin.
C12_FalseGuardArmed ==
    AfterSetTriggers =>
        \A c \in OnConditions : ~Guard(c, S_, P_) => active[c]

\* C13 as the specification words it: the ceiling is never hit in a step in
\* which every firing consumed one of the events queued for the step or was
\* a clamp that followed one.
C13_BurstCompletes ==
    ( /\ \A q \in Ports : step_obs.fired[EventOf(q)] <= Len(step_obs.start_lists[q])
      /\ step_obs.fired["soleOnCondition0"] + step_obs.fired["soleOnCondition1"]
            <= step_obs.fired["soleOnpresynaptic_spikeEvent"]
               + step_obs.fired["soleOnpostsynaptic_spikeEvent"] )
    => pc # "thrown"

\* C19 as the specification words it: a firing is counted exactly when its
\* time equals the time of the firing resolved just before it in the same
\* loop, so the first firing of a step leaves the counter at 0 and, all
\* firings of a step carrying the step's end time, the counter is one less
\* than the number of firings, at every lag, lag 0 included.
C19_CountsRepeatsOnly ==
    (pc = "while" /\ TotalFired >= 1) =>
        simultaneous_transition_count = TotalFired - 1

\* C20 as the specification words it: the value S_.t is given when a step
\* begins is strictly larger than the value the previous step of the same
\* update call was given, and not before the time at which that step ended.
C20_StartStampAdvances ==
    [][ (pc = "step" /\ lag > 0) =>
            /\ S_'.t > step_obs.start_t
            /\ S_'.t >= S_.t ]_vars

\* the positions of update between its call and its return
InUpdate == pc \in {"step", "while", "body", "after"}

\* C14: update raises nothing but ExceededMaximumSimultaneousTransitions:
\* while it runs no error is pending and it ends abnormally only with that
\* exception; the body of an on-event is only entered while the list of its
\* own port holds an event, so front() and pop_front() never meet an empty
\* list; and every guard evaluates to a truth value in every state the loop
\* evaluates it in, NaN operands included.
C14_OnlyCeilingFails ==
    /\ InUpdate => error = NoError
    /\ pc = "thrown" <=> error.name = "ExceededMaximumSimultaneousTransitions"
    /\ pc = "body" =>
          \A q \in Ports : transition = EventOf(q) => Len(events(q)) >= 1
    /\ pc = "while" =>
          /\ \A c \in OnConditions : triggered(c) \in BOOLEAN
          /\ \A ev \in OnEvents : received(ev) \in BOOLEAN

\* the postsynaptic body is entered while the presynaptic list is empty
C14_Witness ==
    /\ pc = "body"
    /\ transition = "soleOnpostsynaptic_spikeEvent"
    /\ events("presynaptic_spike") = <<>>
    /\ events("postsynaptic_spike") # <<>>

\* the states in which set_status may be called
Configurable == pc = "idle" /\ ~buffers_initialized

\* the dictionaries whose keys other than "__regime__" set_status accepts
ValidDicts ==
    {d \in Dicts : d.parent_ok /\ \A k \in DOMAIN d :
                       k \notin {"regime", "parent_ok"} => d[k].kind \in {"absent", "double"}}

\* regime indices outside [0, NUM_REGIMES_)
OutOfRangeIndices == {0 - 1, NUM_REGIMES_, NUM_REGIMES_ + 4}

\* C17: set_status with a "__regime__" index outside [0, NUM_REGIMES_) and
\* otherwise valid keys raises nothing, makes regimes[0] the current regime
\* and stores every parameter and state value of the dictionary, exactly as
\* the same dictionary with index 0 does.
C17_OutOfRangeRegime ==
    Configurable =>
        \A d \in ValidDicts, r \in OutOfRangeIndices, ndebug \in BOOLEAN :
            LET out == SetStatusOutcome([d EXCEPT !.regime = Long(r)], r, ndebug)
                ref == SetStatusOutcome([d EXCEPT !.regime = Long(0)], r, ndebug)
            IN  /\ out.error = NoError
                /\ out.S.current_regime = regimes[1]
                /\ out = ref
                /\ \A i \in 1..Len(ParamKeys) :
                      out.P[ParamKeys[i]] = IF d[ParamKeys[i]].kind = "double"
                                            THEN d[ParamKeys[i]].v ELSE P_[ParamKeys[i]]
                /\ \A i \in 1..Len(StateKeys) :
                      out.S[StateKeys[i]] = IF d[StateKeys[i]].kind = "double"
                                            THEN d[StateKeys[i]].v ELSE S_[StateKeys[i]]

\* set_status has stored the values of the dictionary that carries regime
\* index 5
C17_Witness ==
    /\ Configurable
    /\ error = NoError
    /\ S_.wsyn = AboveMaxDict.wsyn.v
    /\ S_.current_regime = regimes[1]

\* regimes that are not in the instance's regimes vector
ForeignRegimes == {soleRegime_(c) : c \in Cells \ {this}} \cup {NullRegime}

C16_SnapshotRoundTrip ==
    Configurable =>
        \A uninit \in UninitialisedLongs, ndebug \in BOOLEAN :
            LET out == SetStatusOutcome(get_status(P_, S_), uninit, ndebug)
            IN  /\ out.error = NoError
                /\ \A i \in 1..Len(StateKeys) : out.S[StateKeys[i]] = S_[StateKeys[i]]
                /\ out.S.current_regime = S_.current_regime

\* C15: handles_test_event for a spike event returns the receptor type it
\* was given exactly for 1 (presynaptic) and 2 (postsynaptic), raises
\* IncompatibleReceptorType for 0 and UnknownReceptorType below 0 and from 3
\* on, and raises for every receptor type of a current event; a connection
\* is only made by a call that raised nothing, so every connection carries
\* rport 1 or 2 and handle(SpikeEvent) never takes its unrecognised-port
\* branch.
C15_PortValidation ==
    [][ /\ \A r \in ReceptorTypes :
            LET out == handles_test_event("SpikeEvent", r)
            IN  /\ r \in {presynaptic_spike_EVENT_PORT, postsynaptic_spike_EVENT_PORT}
                      <=> out.error = NoError
                /\ out.error = NoError => out.port = r
                /\ r = 0 => out.error.name = "IncompatibleReceptorType"
                /\ (r < 0 \/ r >= 3) => out.error.name = "UnknownReceptorType"
        /\ \A r \in ReceptorTypes :
            handles_test_event("CurrentEvent", r).error.name
                \in {"UnknownReceptorType", "IncompatibleReceptorType"}
        /\ connections' # connections => error' = NoError
        /\ error'.name \in {"UnknownReceptorType", "IncompatibleReceptorType"}
              => connections' = connections
        /\ connections' \subseteq
              [event : {"SpikeEvent"},
               rport : {presynaptic_spike_EVENT_PORT, postsynaptic_spike_EVENT_PORT}]
        /\ pc' # "aborted" ]_vars

\* a spike sent over a connection made with receptor type 2 has been stored
\* in the postsynaptic buffer
C15_Witness ==
    /\ pc = "idle"
    /\ [event |-> "SpikeEvent", rport |-> postsynaptic_spike_EVENT_PORT] \in connections
    /\ n_handled >= 1
    /\ \E l \in Lags : event_port["postsynaptic_spike"][l] # <<>>

\* C21: within the loop of a step S_.t never decreases: a firing leaves it
\* unchanged or moves it to a different time that is larger, never below the
\* stamp the step began with, and the stamp after the loop (end_of_step_t) is
\* not smaller than the value S_.t has when the loop ends, hence than any
\* value it had during the loop.
C21_TimeMonotone ==
    [][ /\ (pc = "body" /\ pc' = "while") =>
              /\ S_'.t = S_.t \/ S_'.t > S_.t
              /\ S_'.t >= step_obs.start_t
        /\ pc = "after" =>
              /\ S_'.t = end_of_step_t
              /\ S_'.t >= S_.t
              /\ S_'.t >= step_obs.start_t ]_vars

\* a firing at a lag above 0 has moved S_.t past the stamp the step began
\* with
C21_Witness ==
    /\ pc = "while"
    /\ TotalFired >= 1
    /\ lag >= 1
    /\ S_.t > step_obs.start_t

\* C22: the completion of a step stamps S_.t with end_of_step_t, runs
\* set_triggers on the stamped state and then records the step exactly once:
\* the record carries the step number, the six state variables and the
\* regime as they are after all firings of the step, and it was taken with
\* the stamp and the latches already in place; nothing else writes a record,
\* so the logger holds one record per completed step.
C22_StepCompletion ==
    [][ /\ pc = "after" =>
              /\ S_'.t = end_of_step_t
              /\ active' = set_triggers(active, S_', P_)
              /\ Len(logger_') = Len(logger_) + 1
              /\ Len(logger_') = slice * MinDelay + lag + 1
              /\ LET r == logger_'[Len(logger_')]
                 IN  /\ r.step = origin \div dt + lag
                     /\ \A i \in 1..Len(StateKeys) : r[StateKeys[i]] = S_[StateKeys[i]]
                     /\ r.regime = S_.current_regime.index
                     /\ r.at_t = S_'.t
                     /\ r.at_active = active'
        /\ pc # "after" => (logger_' = logger_ \/ logger_' = <<>>) ]_vars

\* the second record holds a weight that a firing of the step has changed
C22_Witness ==
    /\ step_obs.done
    /\ TotalFired >= 1
    /\ Len(logger_) >= 2
    /\ logger_[Len(logger_)].wsyn = S_.wsyn
    /\ S_.wsyn # step_obs.start_wsyn

\* C23: when the loop of a step has ended without the exception, the lists of
\* both ports for the step's lag are empty, no on-condition is at once armed
\* and satisfied, and each on-event has fired exactly once per event that the
\* step began with.
C23_LoopExitDrained ==
    pc = "after" =>
        /\ \A q \in Ports :
              /\ events(q) = <<>>
              /\ step_obs.fired[EventOf(q)] = Len(step_obs.start_lists[q])
        /\ \A c \in OnConditions : ~(active[c] /\ Guard(c, S_, P_))

\* the loop has ended after consuming events of both ports and a clamp
C23_Witness ==
    /\ pc = "after"
    /\ \A q \in Ports : Len(step_obs.start_lists[q]) >= 1
    /\ step_obs.fired["soleOnCondition0"] >= 1

\* C24: a firing runs the body, then makes the transition's target regime the
\* current one, then runs set_triggers on the state the body and the regime
\* change have left, and then calls init_solver if and only if the body
\* returned true or the target differs from the regime that was current
\* before; every body returning true, init_solver follows every firing.
C24_FiringOrder ==
    [][ (pc = "body" /\ pc' = "while") =>
            /\ S_'.current_regime = target_regime[transition]
            /\ active' = set_triggers(active, S_', P_)
            /\ step_obs'.init_solver - step_obs.init_solver =
                  (IF body_returns(transition)
                      \/ target_regime[transition] # S_.current_regime
                   THEN 1 ELSE 0)
            /\ step_obs'.init_solver = TotalFired' ]_vars

\* two firings of a step, a presynaptic event and the clamp it caused, each
\* followed by init_solver
C24_Witness ==
    /\ pc = "while"
    /\ step_obs.fired["soleOnpresynaptic_spikeEvent"] = 1
    /\ step_obs.fired["soleOnCondition0"] = 1
    /\ step_obs.init_solver = 2

\* handle(SpikeEvent) appends multiplicity copies of the weight to the end of
\* the list of the event's port and lag and changes nothing else of the
\* buffers, the state, the latches or the parameters
HandleAppendsOnly ==
    n_handled' # n_handled =>
        /\ \E e \in SpikeEvents :
              event_port' = [event_port EXCEPT ![PortOf(e.rport)][e.lag] =
                                @ \o Copies(e.multiplicity, e.weight)]
        /\ S_' = S_ /\ active' = active /\ P_' = P_

\* a step takes entries only from the lists of its own lag
StepTakesOwnLag ==
    (pc = "body" /\ pc' = "while") =>
        \A q \in Ports : \A l \in Lags \ {lag} : event_port'[q][l] = event_port[q][l]

\* C25 as the specification words it: handle appends m copies of w to the
\* list of port p and lag L and touches nothing else, and the step of lag L,
\* and no other step, consumes those entries: when its loop is over the lists
\* of its lag are empty.
C25_IngressFrame ==
    [][ /\ HandleAppendsOnly
        /\ StepTakesOwnLag
        /\ pc' \in {"after", "thrown"} =>
              \A q \in Ports : event_port'[q][lag'] = <<>> ]_vars

\* the state variables a firing has left as they were
Unwritten(keys) == \A k \in keys : S_'[k] = S_[k]

\* C26: the body of an on-event takes exactly the front entry of the list of
\* its own port and nothing from the other port; the presynaptic body writes
\* P, tlast_pre, deltaw and wsyn only, the postsynaptic body M, tlast_post,
\* deltaw and wsyn only; the body of an on-condition takes no entry and
\* writes wsyn only, wmax for soleOnCondition0 and wmin for soleOnCondition1.
C26_BodyFrames ==
    [][ (pc = "body" /\ pc' = "while") =>
          /\ \A q \in Ports :
                IF transition = EventOf(q)
                THEN /\ weight_' = Head(event_port[q][lag])
                     /\ event_port'[q] =
                            [event_port[q] EXCEPT ![lag] = Tail(event_port[q][lag])]
                ELSE event_port'[q] = event_port[q]
          /\ transition = "soleOnpresynaptic_spikeEvent" =>
                Unwritten({"M", "tlast_post"})
          /\ transition = "soleOnpostsynaptic_spikeEvent" =>
                Unwritten({"P", "tlast_pre"})
          /\ transition = "soleOnCondition0" =>
                /\ Unwritten({"tlast_post", "tlast_pre", "deltaw", "M", "P"})
                /\ S_'.wsyn = P_.wmax
          /\ transition = "soleOnCondition1" =>
                /\ Unwritten({"tlast_post", "tlast_pre", "deltaw", "M", "P"})
                /\ S_'.wsyn = P_.wmin ]_vars

\* a presynaptic firing has left the postsynaptic list of the step and a
\* non-zero M as they were, and a non-zero deltaw behind
C26_Witness ==
    /\ pc = "while"
    /\ transition = "soleOnpresynaptic_spikeEvent"
    /\ step_obs.fired["soleOnpresynaptic_spikeEvent"] = 1
    /\ events("postsynaptic_spike") = step_obs.start_lists["postsynaptic_spike"]
    /\ events("postsynaptic_spike") # <<>>
    /\ S_.M # 0
    /\ S_.deltaw # 0

\* a step that began with both lists of its lag empty and no on-condition
\* armed and satisfied
QuietStep ==
    /\ \A q \in Ports : step_obs.start_lists[q] = <<>>
    /\ \A c \in OnConditions :
          ~(step_obs.start_active[c] /\ Guard(c, step_obs.start_S, P_))

\* C27: a step that begins with both lists empty and no on-condition armed
\* and satisfied fires nothing and leaves the six state variables and the
\* current regime as it found them, throughout the step and when it is
\* complete; S_.t alone changes (to end_of_step_t), and no latch that was set
\* is cleared.
C27_QuietStepFrame ==
    ((pc \in {"while", "after"} \/ step_obs.done) /\ QuietStep) =>
        /\ TotalFired = 0
        /\ \A i \in 1..Len(StateKeys) : S_[StateKeys[i]] = step_obs.start_S[StateKeys[i]]
        /\ S_.current_regime = step_obs.start_S.current_regime
        /\ \A c \in OnConditions : step_obs.start_active[c] => active[c]
        /\ step_obs.done => S_.t = end_of_step_t

\* a step at a lag above 0 has passed over a configured state without a
\* firing
C27_Witness ==
    /\ step_obs.done
    /\ QuietStep
    /\ S_.P # 0
    /\ S_.wsyn # 0
    /\ S_.t # step_obs.start_S.t

\* C28: every transition's target regime is the regime at its placeholder
\* index in the regimes vector of the same instance, never NULL and never a
\* regime of the instance it was copied from; the targets never change; and
\* all of them being the sole regime, a firing leaves the current regime as
\* it was.
C28_TargetsResolved ==
    [][ /\ \A tr \in Transitions :
              /\ target_regime'[tr] = regimes'[target_regime_index[tr] + 1]
              /\ target_regime'[tr] # NullRegime
              /\ target_regime'[tr].cell = this'
        /\ target_regime' = target_regime
        /\ (pc = "body" /\ pc' = "while") =>
              /\ target_regime[transition] = regimes[SOLE_REGIME + 1]
              /\ S_'.current_regime = S_.current_regime ]_vars

\* on a copy-constructed node the lower-bound condition had fired, its
\* target being the node's own sole regime
C28_Witness ==
    /\ this = "node"
    /\ pc = "while"
    /\ transition = "soleOnCondition1"
    /\ step_obs.fired["soleOnCondition1"] = 1
    /\ S_.current_regime = target_regime["soleOnCondition1"]
    /\ S_.current_regime.cell = "node"

\* C29 as the specification words it: if wmin <= wsyn <= wmax holds when
\* init_buffers_ initialises the latches, then wmin <= wsyn <= wmax holds at
\* the end of every step that completes, whatever events arrive.
C29_WeightBounds ==
    (step_obs.done /\ edge_obs.bounded) => WithinBounds(S_, P_)

\* C30: within a step an on-condition that is armed and satisfied fires
\* before the next queued event is applied, and every presynaptic event
\* queued for the step is applied before any postsynaptic one: the body of
\* an on-event is only entered while no on-condition is armed and satisfied,
\* the postsynaptic body only while the presynaptic list is empty, and once
\* a postsynaptic event has been applied the presynaptic list stays empty.
C30_TriggerPriority ==
    /\ (pc = "body" /\ transition \in OnEvents) =>
          \A c \in OnConditions : ~(active[c] /\ Guard(c, S_, P_))
    /\ (pc = "body" /\ transition = "soleOnpostsynaptic_spikeEvent") =>
          events("presynaptic_spike") = <<>>
    /\ (pc \in {"while", "body", "after"}
          /\ step_obs.fired["soleOnpostsynaptic_spikeEvent"] >= 1) =>
          /\ events("presynaptic_spike") = <<>>
          /\ step_obs.fired["soleOnpresynaptic_spikeEvent"]
                = Len(step_obs.start_lists["presynaptic_spike"])

\* the clamp was selected after a presynaptic event, with events of both
\* ports still queued for the step
C30_Witness ==
    /\ pc = "body"
    /\ transition = "soleOnCondition0"
    /\ step_obs.fired["soleOnpresynaptic_spikeEvent"] >= 1
    /\ events("presynaptic_spike") # <<>>
    /\ events("postsynaptic_spike") # <<>>

\* C31: when ExceededMaximumSimultaneousTransitions is raised the body of the
\* transition that tripped the ceiling has not run: neither the selection of
\* that transition nor the throw changes a state variable, State.t or the
\* active regime, neither consumes an event of either port, and the throw
\* is only taken from the point between the selection and the body, with
\* the firing counts of the step as the selection found them.
C31_ThrowBeforeBody ==
    [][ /\ (pc = "while" /\ pc' = "body") =>
              /\ S_' = S_
              /\ event_port' = event_port
              /\ step_obs' = step_obs
        /\ (pc' = "thrown") =>
              /\ pc = "body"
              /\ transition' = transition
              /\ S_' = S_
              /\ event_port' = event_port
              /\ step_obs' = step_obs ]_vars

\* the ceiling was tripped by an on-event whose event is still at the front
\* of its list, after earlier events of the same port were consumed
C31_Witness ==
    /\ pc = "thrown"
    /\ error.name = "ExceededMaximumSimultaneousTransitions"
    /\ transition \in OnEvents
    /\ received(transition)
    /\ step_obs.fired[transition] >= 1
    /\ S_.current_regime = step_obs.start_regime

\* C32: trace decay uses the previous spike time.  A firing of the
\* presynaptic on-event leaves P equal to the old P decayed over the time
\* since the tlast_pre the body found, plus aLTP, and leaves tlast_pre equal
\* to State.t; a firing of the postsynaptic on-event leaves M equal to the
\* old M decayed over the time since the tlast_post the body found, minus
\* aLTD, and leaves tlast_post equal to State.t.
C32_DecayFromPreviousSpike ==
    [][ (pc = "body" /\ pc' = "while") =>
          /\ (transition = "soleOnpresynaptic_spikeEvent") =>
                /\ S_'.P = FAdd(FMul(S_.P, FExpDiv(FAdd(0 - S_'.t, S_.tlast_pre),
                                                   P_.tauLTP)),
                                P_.aLTP)
                /\ S_'.tlast_pre = S_'.t
          /\ (transition = "soleOnpostsynaptic_spikeEvent") =>
                /\ S_'.M = FAdd(FMul(S_.M, FExpDiv(FAdd(0 - S_'.t, S_.tlast_post),
                                                   P_.tauLTD)),
                                0 - P_.aLTD)
                /\ S_'.tlast_post = S_'.t ]_vars

\* the one presynaptic event of a step has fired at a time later than the
\* previous presynaptic spike, and the decay of P over that interval shows
\* in the new P
C32_Witness ==
    /\ pc = "while"
    /\ step_obs.fired["soleOnpresynaptic_spikeEvent"] = 1
    /\ S_.tlast_pre = S_.t
    /\ step_obs.start_S.tlast_pre < S_.t
    /\ ~IsNaN(S_.P)
    /\ S_.P = FAdd(FMul(step_obs.start_S.P,
                        FExpDiv(FAdd(0 - S_.t, step_obs.start_S.tlast_pre),
                                P_.tauLTP)),
                   P_.aLTP)
    /\ S_.P # FAdd(step_obs.start_S.P, P_.aLTP)
====
